---- MODULE Spec2Model ----
(***************************************************************************)
(* Model of .github/near_core_changelog_update.py: the changelog updater   *)
(* of borealis-engine-lib.                                                 *)
(*                                                                         *)
(* Text is a sequence of tokens.  Every token stands for a fixed piece of  *)
(* text, chosen so that each regular expression of the script matches on   *)
(* token boundaries:                                                       *)
(*   "NL"    "\n"                      "SP"    " "                         *)
(*   "1" "2" digits   "." "-"          "a"     a lowercase letter          *)
(*   "X"     any other printable text (upper case, punctuation)            *)
(*   "UH"    "## [Unreleased]"         "H2B"   "## ["      "RB"  "]"       *)
(*   "UL"    "[Unreleased]:"           "LB"    "["                         *)
(*   "HASH"  a run of "#"              "CW"    "Changes"                   *)
(*   "BULA"  "* chore: bump nearcore to "                                  *)
(*   "BULB1" " in [#1]"  (one per PR number)                               *)
(*   "PRL1"  "[#1]: <REPO_URL>/pull/1"  (one per PR number)                *)
(*   "URLS"  "<REPO_URL>/"             "MAIN"  "main"                      *)
(*   "RBC"   "]: <REPO_URL>/compare/"  "D1" "D2" dates YYYY-MM-DD          *)
(* Version strings are spelled out character by character, so a version   *)
(* that holds a newline really breaks the line it is written on.  "LB" is  *)
(* only ever written at the start of a line.                               *)
(***************************************************************************)
EXTENDS Integers, Sequences, FiniteSets, TLC

(***************************************************************************)
(* Bounds of the model.                                                    *)
(***************************************************************************)
MaxVerLen == 7
MaxRuns == 2
MaxBodyLines == 4
MaxLinkLines == 3

(***************************************************************************)
(* Character classes and string primitives of Python.                      *)
(***************************************************************************)
Digits == {"1", "2"}
Lower == {"a"}
VerChars == Digits \cup Lower \cup {".", "-", "NL", "X"}
PRs == {"1", "2"}
Dates == {"D2"}

Slice(s, lo, hi) == SubSeq(s, lo + 1, hi)
From(s, lo) == SubSeq(s, lo + 1, Len(s))

IsSpace(t) == t \in {"SP", "NL"}

lstrip(s) ==
  LET ks == {k \in 0..Len(s) : \A j \in 1..k : IsSpace(s[j])}
      n == CHOOSE k \in ks : \A m \in ks : m <= k
  IN From(s, n)

rstrip(s) ==
  LET ks == {k \in 0..Len(s) : \A j \in (k + 1)..Len(s) : IsSpace(s[j])}
      n == CHOOSE k \in ks : \A m \in ks : k <= m
  IN Slice(s, 0, n)

strip(s) == rstrip(lstrip(s))

\* ^ under re.MULTILINE: offset p is the start of the string or follows "\n"
LineStart(s, p) == p = 0 \/ (p <= Len(s) /\ s[p] = "NL")

Min(S) == CHOOSE x \in S : \A y \in S : x <= y

\* the tokens pat occur in s from offset p on
OccursAt(s, p, pat) ==
  /\ p + Len(pat) <= Len(s)
  /\ \A k \in 1..Len(pat) : s[p + k] = pat[k]

BULB(pr) == IF pr = "1" THEN "BULB1" ELSE "BULB2"
PRL(pr) == IF pr = "1" THEN "PRL1" ELSE "PRL2"
PRLTokens == {PRL(pr) : pr \in PRs}

\* REPO_URL, as it is spliced into the Unreleased link
REPO_URL == <<"URLS">>

(***************************************************************************)
(* VERSION_PATTERN = ^[\d\.]+\-[\d\.]+(\-[a-z]+\.\d+)?$ run by re.match,   *)
(* as the automaton of the expression.  Python's $ also matches before a   *)
(* newline that ends the string.                                           *)
(***************************************************************************)
VStep(q, c) ==
  CASE q = "start" /\ c \in Digits \cup {"."} -> "g1"
    [] q = "g1" /\ c \in Digits \cup {"."} -> "g1"
    [] q = "g1" /\ c = "-" -> "dash1"
    [] q = "dash1" /\ c \in Digits \cup {"."} -> "g2"
    [] q = "g2" /\ c \in Digits \cup {"."} -> "g2"
    [] q = "g2" /\ c = "-" -> "dash2"
    [] q = "dash2" /\ c \in Lower -> "pre"
    [] q = "pre" /\ c \in Lower -> "pre"
    [] q = "pre" /\ c = "." -> "dot"
    [] q = "dot" /\ c \in Digits -> "num"
    [] q = "num" /\ c \in Digits -> "num"
    [] q \in {"g2", "num"} /\ c = "NL" -> "eol"
    [] OTHER -> "fail"

RECURSIVE VRun(_, _, _)
VRun(q, s, i) == IF i > Len(s) THEN q ELSE VRun(VStep(q, s[i]), s, i + 1)

VERSION_PATTERN_match(s) == VRun("start", s, 1) \in {"g2", "num", "eol"}

\* an environment variable or argument: unset (None), or a string
None == [set |-> FALSE, val |-> <<>>]
Str(s) == [set |-> TRUE, val |-> s]
Falsy(x) == ~x.set \/ x.val = <<>>

validate_version(version) ==
  IF Falsy(version) THEN FALSE ELSE VERSION_PATTERN_match(version.val)

(***************************************************************************)
(* split_changelog_content: ^(?=\[Unreleased\]:) under re.MULTILINE.       *)
(* A failed stage (print + exit(1)) is the result [ok |-> FALSE].          *)
(***************************************************************************)
LinkSectionStarts(content) ==
  {p \in 0..(Len(content) - 1) : LineStart(content, p) /\ content[p + 1] = "UL"}

split_changelog_content(content) ==
  IF LinkSectionStarts(content) = {}
  THEN [ok |-> FALSE, upper |-> <<>>, bottom |-> <<>>]
  ELSE LET m == Min(LinkSectionStarts(content))
       IN [ok |-> TRUE, upper |-> Slice(content, 0, m), bottom |-> From(content, m)]

(***************************************************************************)
(* find_unreleased_section: UNRELEASED_SECTION_PATTERN = ^## \[Unreleased\] *)
(***************************************************************************)
UnreleasedHeadings(upper_section) ==
  {p \in 0..(Len(upper_section) - 1) :
     LineStart(upper_section, p) /\ upper_section[p + 1] = "UH"}

find_unreleased_section(upper_section) ==
  IF UnreleasedHeadings(upper_section) = {}
  THEN [ok |-> FALSE, start |-> 0, end |-> 0]
  ELSE LET p == Min(UnreleasedHeadings(upper_section))
       IN [ok |-> TRUE, start |-> p, end |-> p + 1]

(***************************************************************************)
(* find_previous_version: RELEASE_ENTRY_PATTERN = ^## \[([\d\.\-a-z]+)\]   *)
(* searched from unreleased_match.end() on.                                *)
(***************************************************************************)
\* the tokens made of characters of [\d\.\-a-z] only
LabelClass == Digits \cup Lower \cup {".", "-", "MAIN", "D1", "D2"}

\* length of the longest run of label characters from offset p on
LabelRun(s, p) ==
  LET ks == {k \in 0..(Len(s) - p) : \A j \in 1..k : s[p + j] \in LabelClass}
  IN CHOOSE k \in ks : \A m \in ks : m <= k

ReleaseEntryAt(s, p) ==
  /\ p + 1 <= Len(s)
  /\ LineStart(s, p)
  /\ s[p + 1] = "H2B"
  /\ LabelRun(s, p + 1) >= 1
  /\ p + 1 + LabelRun(s, p + 1) + 1 <= Len(s)
  /\ s[p + 1 + LabelRun(s, p + 1) + 1] = "RB"

ReleaseLabelAt(s, p) == Slice(s, p + 1, p + 1 + LabelRun(s, p + 1))

ReleaseEntries(s, pos) == {p \in pos..(Len(s) - 1) : ReleaseEntryAt(s, p)}

find_previous_version(upper_section, unreleased_match) ==
  IF ReleaseEntries(upper_section, unreleased_match.end) = {}
  THEN [ok |-> FALSE, prev_version |-> <<>>, unreleased_section_end |-> 0,
        unreleased_content |-> <<>>]
  ELSE LET first_release == Min(ReleaseEntries(upper_section, unreleased_match.end))
       IN [ok |-> TRUE,
           prev_version |-> ReleaseLabelAt(upper_section, first_release),
           unreleased_section_end |-> first_release,
           unreleased_content |->
             strip(Slice(upper_section, unreleased_match.end, first_release))]

(***************************************************************************)
(* extract_nearcore_version: '-'.join(version.split('-')[1:])              *)
(***************************************************************************)
extract_nearcore_version(version) ==
  IF \E i \in 1..Len(version) : version[i] = "-"
  THEN From(version, Min({i \in 1..Len(version) : version[i] = "-"}))
  ELSE version

(***************************************************************************)
(* create_new_entry: CHANGES_SECTION_PATTERN = #+\s+Changes, re.search     *)
(***************************************************************************)
\* length of the whitespace run from offset p on
SpaceRun(s, p) ==
  LET ks == {k \in 0..(Len(s) - p) : \A j \in 1..k : IsSpace(s[p + j])}
  IN CHOOSE k \in ks : \A m \in ks : m <= k

ChangesMatchAt(s, p) ==
  /\ p + 1 <= Len(s)
  /\ s[p + 1] = "HASH"
  /\ SpaceRun(s, p + 1) >= 1
  /\ p + 1 + SpaceRun(s, p + 1) + 1 <= Len(s)
  /\ s[p + 1 + SpaceRun(s, p + 1) + 1] = "CW"

ChangesMatches(s) == {p \in 0..(Len(s) - 1) : ChangesMatchAt(s, p)}

ChangesHeading == <<"HASH", "SP", "CW">>

create_new_entry(unreleased_content, new_entry) ==
  IF unreleased_content = <<>>
  THEN ChangesHeading \o <<"NL", "NL">> \o new_entry
  ELSE IF ChangesMatches(unreleased_content) # {}
  THEN LET p == Min(ChangesMatches(unreleased_content))
           changes_end == p + 1 + SpaceRun(unreleased_content, p + 1) + 1
       IN Slice(unreleased_content, 0, changes_end)
            \o <<"NL", "NL">> \o new_entry \o <<"NL">>
            \o lstrip(From(unreleased_content, changes_end))
  ELSE ChangesHeading \o <<"NL", "NL">> \o new_entry \o <<"NL", "NL">>
         \o unreleased_content

(***************************************************************************)
(* add_pr_link: PR_LINK_PATTERN = \[#\d+\]: <REPO_URL>/pull/\d+, re.search *)
(***************************************************************************)
add_pr_link(content, pr_link) ==
  IF \E i \in 1..Len(content) : content[i] \in PRLTokens
  THEN content \o <<"NL">> \o pr_link
  ELSE content \o <<"NL", "NL">> \o pr_link

(***************************************************************************)
(* update_link_definitions: two re.sub passes over the link region.        *)
(***************************************************************************)
\* offset of the end of the line that holds offset p (where .* stops)
EndOfLine(s, p) ==
  Min({q \in p..Len(s) : q = Len(s) \/ s[q + 1] = "NL"})

UnreleasedLink(new_version) ==
  <<"UL", "SP">> \o REPO_URL \o new_version \o <<".", ".", ".", "MAIN">>

LinkDef(new_version, prev_version) ==
  <<"LB">> \o new_version \o <<"RBC">> \o prev_version \o <<".", ".", ".">>
    \o new_version

\* re.sub(r'\[Unreleased\]: .*', repl, s): every match, left to right
RECURSIVE SubUnreleasedLink(_, _, _)
SubUnreleasedLink(s, p, repl) ==
  IF p >= Len(s) THEN <<>>
  ELSE IF OccursAt(s, p, <<"UL", "SP">>)
  THEN repl \o SubUnreleasedLink(s, EndOfLine(s, p + 2), repl)
  ELSE <<s[p + 1]>> \o SubUnreleasedLink(s, p + 1, repl)

\* re.sub(r'(\[Unreleased\]: .*\n)', '\\1' + ins + '\n', s)
RECURSIVE SubInsertLink(_, _, _)
SubInsertLink(s, p, ins) ==
  IF p >= Len(s) THEN <<>>
  ELSE IF OccursAt(s, p, <<"UL", "SP">>) /\ EndOfLine(s, p + 2) < Len(s)
  THEN Slice(s, p, EndOfLine(s, p + 2) + 1) \o ins \o <<"NL">>
         \o SubInsertLink(s, EndOfLine(s, p + 2) + 1, ins)
  ELSE <<s[p + 1]>> \o SubInsertLink(s, p + 1, ins)

update_link_definitions(bottom_section, new_version, prev_version) ==
  SubInsertLink(
    SubUnreleasedLink(bottom_section, 0, UnreleasedLink(new_version)),
    0, LinkDef(new_version, prev_version))

(***************************************************************************)
(* update_changelog, lines 147-175: compose, merge, reassemble.            *)
(***************************************************************************)
\* the tokens whose text starts with "## ["
StartsH2B(t) == t \in {"UH", "H2B"}

\* re.sub(r'## \[Unreleased\].*?(?=## \[|$)', empty_unreleased, s, count=1,
\*        flags=re.DOTALL); $ also matches before a final newline
SubEmptyUnreleased(s) ==
  IF \A i \in 1..Len(s) : s[i] # "UH" THEN s
  ELSE LET p == Min({i \in 1..Len(s) : s[i] = "UH"}) - 1
           q == Min({k \in (p + 1)..Len(s) :
                       \/ k = Len(s)
                       \/ (k = Len(s) - 1 /\ s[Len(s)] = "NL")
                       \/ StartsH2B(s[k + 1])})
       IN Slice(s, 0, p) \o <<"UH", "NL", "NL">> \o From(s, q)

new_entry_of(new_version, pr_number) ==
  <<"BULA">> \o extract_nearcore_version(new_version) \o <<BULB(pr_number)>>

pr_link_of(pr_number) == <<PRL(pr_number)>>

modified_unreleased_content_of(unreleased_content, new_version, pr_number) ==
  add_pr_link(create_new_entry(unreleased_content,
                               new_entry_of(new_version, pr_number)),
              pr_link_of(pr_number))

new_version_section_of(new_version, current_date, modified) ==
  <<"H2B">> \o new_version \o <<"RB", "SP", current_date, "NL", "NL">> \o modified

updated_upper_section_of(upper_section, um, prev, new_version, pr_number, current_date) ==
  SubEmptyUnreleased(
    Slice(upper_section, 0, um.end)
      \o <<"NL", "NL">>
      \o new_version_section_of(new_version, current_date,
           modified_unreleased_content_of(prev.unreleased_content, new_version,
                                          pr_number))
      \o <<"NL", "NL">>
      \o From(upper_section, prev.unreleased_section_end))

\* a guard that expects the heading to end its line, as if it carried no date
VersionHeadingIn_undated(content, new_version) ==
  \E p \in 0..Len(content) :
    OccursAt(content, p, <<"H2B">> \o new_version \o <<"RB", "NL">>)

\* version_pattern.search(content): '## \[' + re.escape(new_version) + '\]'
VersionHeadingIn(content, new_version) ==
  \E p \in 0..Len(content) :
    OccursAt(content, p, <<"H2B">> \o new_version \o <<"RB">>)

(***************************************************************************)
(* The state of the program: the changelog file, the environment of the    *)
(* current process, and the locals of update_changelog at its position pc. *)
(***************************************************************************)
VARIABLES
  file,             \* CHANGES.md: [exists, text]
  env,              \* os.environ and the clock: NEW_VERSION, PR_NUMBER, date
  pc,               \* position of the process in update_changelog
  status,           \* exit status of the process (-1 while it runs)
  outcome,          \* which branch ended the process
  content,          \* local: changelog_path.read_text()
  upper_section,    \* local
  bottom_section,   \* local
  unreleased_match, \* local: match of find_unreleased_section
  prev,             \* local: result of find_previous_version
  accessed,         \* the process checked or read the file
  wrote,            \* the process called write_text
  file0,            \* the file when the process started
  again,            \* the process repeats the inputs of a run that exited 0
  runs,             \* number of processes started
  track,            \* whether the history below is recorded
  orig,             \* history: the file before the first run
  added,            \* history: versions written, oldest first
  arg,              \* argument of a stage run on its own
  res               \* its result

vars == <<file, env, pc, status, outcome, content, upper_section, bottom_section,
          unreleased_match, prev, accessed, wrote, file0, again, runs, track,
          orig, added, arg, res>>

locals == <<content, upper_section, bottom_section, unreleased_match, prev>>
history == <<track, orig, added>>
stage == <<arg, res>>

NoFile == [exists |-> FALSE, text |-> <<>>]
FileOf(t) == [exists |-> TRUE, text |-> t]

NoMatch == [ok |-> FALSE, start |-> 0, end |-> 0]
NoPrev == [ok |-> FALSE, prev_version |-> <<>>, unreleased_section_end |-> 0,
           unreleased_content |-> <<>>]

(***************************************************************************)
(* Inputs: changelogs built from parts, and environments.                  *)
(***************************************************************************)
V11 == <<"1", "-", "1">>
V22 == <<"2", "-", "2">>
V21 == <<"2", "-", "1", "-", "a", ".", "1">>

Preambles ==
  { <<>>,
    <<"X", "NL", "NL">>,
    <<"X", "SP", "UH", "SP", "X", "NL", "NL">> }

UnreleasedHeads == { <<>>, <<"UH", "NL">> }

RawBodies ==
  { <<"NL">>,
    <<"NL", "HASH", "SP", "CW", "NL", "NL", "X", "NL", "NL">>,
    <<"NL", "X", "NL", "NL">>,
    <<"NL", "HASH", "SP", "CW", "SP", "X", "NL", "NL", "X", "NL", "NL">>,
    <<"NL", "X", "NL", "NL", "PRL1", "NL", "NL", "X", "NL", "NL">>,
    <<"NL", "HASH", "SP", "CW", "NL", "NL", "X", "NL", "NL", "PRL1", "NL", "NL">> }

Releases ==
  { <<>>,
    <<"H2B">> \o V11 \o <<"RB", "SP", "D1", "NL", "NL", "X", "NL", "NL">> }

OldLink == <<"LB">> \o V11 \o <<"RBC", "X", "NL">>

Bottoms ==
  { <<>>,
    <<"UL", "SP", "X", "NL">> \o OldLink,
    <<"UL", "SP", "X">>,
    <<"UL", "X", "NL">> \o OldLink,
    <<"UL", "SP", "X", "NL">> \o OldLink \o <<"UL", "SP", "X", "NL">> }

Changelogs ==
  { a \o b \o c \o d \o e :
      a \in Preambles, b \in UnreleasedHeads, c \in RawBodies, d \in Releases,
      e \in Bottoms }

InitialFiles == {NoFile} \cup {FileOf(t) : t \in Changelogs}

VersionInputs ==
  { None, Str(<<>>), Str(<<"1">>), Str(V11), Str(V22), Str(V21),
    Str(V22 \o <<"NL">>) }

PRInputs == { None, Str(<<>>), Str(<<"1">>), Str(<<"2">>) }

InitRun ==
  /\ env = [NEW_VERSION |-> None, PR_NUMBER |-> None, date |-> "D1"]
  /\ pc = "exit"
  /\ status = 0
  /\ outcome = "none"
  /\ content = <<>>
  /\ upper_section = <<>>
  /\ bottom_section = <<>>
  /\ unreleased_match = NoMatch
  /\ prev = NoPrev
  /\ accessed = FALSE
  /\ wrote = FALSE
  /\ again = FALSE
  /\ runs = 0
  /\ added = <<>>

NotRun == [step |-> 0]

InitStage ==
  /\ arg = <<>>
  /\ res = NotRun

Init ==
  /\ file \in InitialFiles
  /\ file0 = file
  /\ orig = file
  /\ track = FALSE
  /\ InitRun
  /\ InitStage

(***************************************************************************)
(* A CI job starts the script.                                             *)
(***************************************************************************)
Start(v, pr, d) ==
  /\ pc = "exit"
  /\ runs < MaxRuns
  /\ runs' = runs + 1
  /\ again' = (runs > 0 /\ status = 0 /\ env.NEW_VERSION = v /\ env.PR_NUMBER = pr)
  /\ env' = [NEW_VERSION |-> v, PR_NUMBER |-> pr, date |-> d]
  /\ pc' = "validate"
  /\ status' = -1
  /\ outcome' = "none"
  /\ content' = <<>>
  /\ upper_section' = <<>>
  /\ bottom_section' = <<>>
  /\ unreleased_match' = NoMatch
  /\ prev' = NoPrev
  /\ accessed' = FALSE
  /\ wrote' = FALSE
  /\ file0' = file
  /\ UNCHANGED <<file, history, stage>>

StartRun == \E v \in VersionInputs, pr \in PRInputs, d \in Dates : Start(v, pr, d)

\* exit(code), or the return that ends the process with code 0
Exit(code, why) ==
  /\ pc' = "exit"
  /\ status' = code
  /\ outcome' = why

(***************************************************************************)
(* update_changelog, lines 123-132                                         *)
(***************************************************************************)
ValidateInputs ==
  /\ pc = "validate"
  /\ IF ~Falsy(env.NEW_VERSION) /\ ~validate_version(env.NEW_VERSION)
     THEN Exit(1, "invalid_version")
     ELSE IF Falsy(env.NEW_VERSION) \/ Falsy(env.PR_NUMBER)
     THEN Exit(1, "missing_input")
     ELSE /\ pc' = "load"
          /\ UNCHANGED <<status, outcome>>
  /\ UNCHANGED <<file, env, locals, accessed, wrote, file0, again, runs, history,
                 stage>>

\* a locator that creates the missing changelog instead of failing
Load_creating ==
  /\ pc = "load"
  /\ accessed' = TRUE
  /\ file' = IF file.exists THEN file ELSE FileOf(<<>>)
  /\ content' = file'.text
  /\ pc' = "check"
  /\ UNCHANGED <<status, outcome>>
  /\ UNCHANGED <<env, upper_section, bottom_section, unreleased_match, prev,
                 wrote, file0, again, runs, history, stage>>

(***************************************************************************)
(* get_date_and_path and read_text, lines 134-135                          *)
(***************************************************************************)
Load ==
  /\ pc = "load"
  /\ accessed' = TRUE
  /\ IF ~file.exists
     THEN /\ Exit(1, "no_file")
          /\ UNCHANGED content
     ELSE /\ content' = file.text
          /\ pc' = "check"
          /\ UNCHANGED <<status, outcome>>
  /\ UNCHANGED <<file, env, upper_section, bottom_section, unreleased_match, prev,
                 wrote, file0, again, runs, history, stage>>

\* an orchestrator without the duplicate guard
CheckIdempotent_absent ==
  /\ pc = "check"
  /\ pc' = "split"
  /\ UNCHANGED <<status, outcome>>
  /\ UNCHANGED <<file, env, locals, accessed, wrote, file0, again, runs, history,
                 stage>>

(***************************************************************************)
(* the duplicate guard, lines 137-140                                      *)
(***************************************************************************)
CheckIdempotent ==
  /\ pc = "check"
  /\ IF VersionHeadingIn(content, env.NEW_VERSION.val)
     THEN Exit(0, "already_exists")
     ELSE /\ pc' = "split"
          /\ UNCHANGED <<status, outcome>>
  /\ UNCHANGED <<file, env, locals, accessed, wrote, file0, again, runs, history,
                 stage>>

(***************************************************************************)
(* line 142                                                                *)
(***************************************************************************)
Split ==
  /\ pc = "split"
  /\ LET r == split_changelog_content(content)
     IN IF ~r.ok
        THEN /\ Exit(1, "no_link_section")
             /\ UNCHANGED <<upper_section, bottom_section>>
        ELSE /\ upper_section' = r.upper
             /\ bottom_section' = r.bottom
             /\ pc' = "locate_unreleased"
             /\ UNCHANGED <<status, outcome>>
  /\ UNCHANGED <<file, env, content, unreleased_match, prev, accessed, wrote, file0,
                 again, runs, history, stage>>

(***************************************************************************)
(* line 143                                                                *)
(***************************************************************************)
LocateUnreleased ==
  /\ pc = "locate_unreleased"
  /\ LET m == find_unreleased_section(upper_section)
     IN IF ~m.ok
        THEN /\ Exit(1, "no_unreleased")
             /\ UNCHANGED unreleased_match
        ELSE /\ unreleased_match' = m
             /\ pc' = "locate_previous"
             /\ UNCHANGED <<status, outcome>>
  /\ UNCHANGED <<file, env, content, upper_section, bottom_section, prev, accessed,
                 wrote, file0, again, runs, history, stage>>

(***************************************************************************)
(* line 145                                                                *)
(***************************************************************************)
LocatePrevious ==
  /\ pc = "locate_previous"
  /\ LET r == find_previous_version(upper_section, unreleased_match)
     IN IF ~r.ok
        THEN /\ Exit(1, "no_previous")
             /\ UNCHANGED prev
        ELSE /\ prev' = r
             /\ pc' = "compose"
             /\ UNCHANGED <<status, outcome>>
  /\ UNCHANGED <<file, env, content, upper_section, bottom_section, unreleased_match,
                 accessed, wrote, file0, again, runs, history, stage>>

(***************************************************************************)
(* lines 147-178: compose, merge, reassemble, update links, write          *)
(***************************************************************************)
updated_content_of(upper, bottom, um, pv, new_version, pr_number, current_date) ==
  updated_upper_section_of(upper, um, pv, new_version, pr_number, current_date)
    \o update_link_definitions(bottom, new_version, pv.prev_version)

ComposeAndWrite ==
  /\ pc = "compose"
  /\ file' = FileOf(updated_content_of(upper_section, bottom_section,
                      unreleased_match, prev, env.NEW_VERSION.val,
                      env.PR_NUMBER.val[1], env.date))
  /\ wrote' = TRUE
  /\ Exit(0, "updated")
  /\ added' = IF track THEN Append(added, env.NEW_VERSION.val) ELSE added
  /\ UNCHANGED <<env, locals, accessed, file0, again, runs, track, orig, stage>>

Next ==
  \/ StartRun
  \/ ValidateInputs
  \/ Load
  \/ CheckIdempotent
  \/ Split
  \/ LocateUnreleased
  \/ LocatePrevious
  \/ ComposeAndWrite

Spec == Init /\ [][Next]_vars

(***************************************************************************)
(* Properties of whole runs.                                               *)
(***************************************************************************)
Finished == pc = "exit" /\ runs > 0

\* C1: a run that repeats the NEW_VERSION and PR_NUMBER of a run that exited 0,
\* on the file that run left, exits 0 and leaves the file as it found it.
C1_Idempotent ==
  (Finished /\ again) => (status = 0 /\ ~wrote /\ file = file0)

\* the second run follows a run that rewrote the changelog
C1_Witness ==
  Finished /\ again /\ file0 # orig /\ file0.exists /\ status = 0

ConfigErrors == {"invalid_version", "missing_input"}
ShapeErrors == {"no_file", "no_link_section", "no_unreleased", "no_previous"}

InputsRejected ==
  \/ Falsy(env.NEW_VERSION)
  \/ Falsy(env.PR_NUMBER)
  \/ ~validate_version(env.NEW_VERSION)

HasHeadingOf(text, v) ==
  \E i \in 1..Len(text) :
    /\ i + Len(v) + 1 <= Len(text)
    /\ SubSeq(text, i, i + Len(v) + 1) = <<"H2B">> \o v \o <<"RB">>

\* the changelog the run started on is missing, or lacks the link section, the
\* Unreleased heading or a release heading after it
ShapeBroken(f) ==
  \/ ~f.exists
  \/ ~split_changelog_content(f.text).ok
  \/ ~find_unreleased_section(split_changelog_content(f.text).upper).ok
  \/ ~find_previous_version(
         split_changelog_content(f.text).upper,
         find_unreleased_section(split_changelog_content(f.text).upper)).ok

\* C2: a run that ends in a configuration error or a document-shape error exits
\* with status 1 and has not written the file; a run rejected for its inputs has
\* neither read the file nor checked that it exists.
C2_ErrorsExitOneWithoutWrite ==
  /\ (Finished /\ outcome \in ConfigErrors \cup ShapeErrors)
       => (status = 1 /\ ~wrote /\ file = file0)
  /\ (Finished /\ InputsRejected)
       => (outcome \in ConfigErrors /\ status = 1 /\ ~accessed /\ file = file0)
  /\ (Finished /\ ~InputsRejected /\ ShapeBroken(file0)
        /\ ~(file0.exists /\ HasHeadingOf(file0.text, env.NEW_VERSION.val)))
       => (outcome \in ShapeErrors /\ status = 1 /\ ~wrote /\ file = file0)
  /\ status = 1 => (~wrote /\ file = file0)

\* a run got as far as the previous-release locator and failed there
C2_Witness ==
  Finished /\ outcome = "no_previous" /\ status = 1 /\ accessed /\ file0.exists

\* C3: with valid inputs and the heading of NEW_VERSION already in the loaded
\* text, the run exits 0 without writing, before the split and the two locate
\* stages run, so none of their errors is raised.
C3_DuplicateGuard ==
  /\ (Finished /\ ~InputsRejected /\ file0.exists
        /\ HasHeadingOf(file0.text, env.NEW_VERSION.val))
       => /\ status = 0
          /\ outcome = "already_exists"
          /\ ~wrote
          /\ file = file0
          /\ upper_section = <<>> /\ bottom_section = <<>>
          /\ unreleased_match = NoMatch /\ prev = NoPrev
  /\ pc \in {"split", "locate_unreleased", "locate_previous", "compose"}
       => ~HasHeadingOf(content, env.NEW_VERSION.val)

\* the guard ends a first run on a changelog that has no link section
C3_Witness ==
  /\ Finished /\ outcome = "already_exists" /\ ~again
  /\ ShapeBroken(file0)

(***************************************************************************)
(* The shape the specification gives a version identifier:                 *)
(* <digits-and-dots>-<digits-and-dots>, optionally -<lowercase>.<digits>.  *)
(***************************************************************************)
NumericGroup(s) == Len(s) >= 1 /\ \A k \in 1..Len(s) : s[k] \in Digits \cup {"."}

PrereleaseGroup(s) ==
  \E d \in 2..(Len(s) - 1) :
    /\ s[d] = "."
    /\ \A k \in 1..(d - 1) : s[k] \in Lower
    /\ \A k \in (d + 1)..Len(s) : s[k] \in Digits

VersionShape(s) ==
  \E i \in 1..Len(s) :
    /\ s[i] = "-"
    /\ NumericGroup(SubSeq(s, 1, i - 1))
    /\ \/ NumericGroup(SubSeq(s, i + 1, Len(s)))
       \/ \E j \in (i + 1)..Len(s) :
            /\ s[j] = "-"
            /\ NumericGroup(SubSeq(s, i + 1, j - 1))
            /\ PrereleaseGroup(SubSeq(s, j + 1, Len(s)))

(***************************************************************************)
(* Reassembly.                                                             *)
(***************************************************************************)
\* the labels of the release headings of u from offset p on, top to bottom
RECURSIVE ReleaseLabels(_, _)
ReleaseLabels(u, p) ==
  IF ReleaseEntries(u, p) = {} THEN <<>>
  ELSE <<ReleaseLabelAt(u, Min(ReleaseEntries(u, p)))>>
         \o ReleaseLabels(u, Min(ReleaseEntries(u, p)) + 1)

OneUnreleasedAboveFirstRelease(u) ==
  /\ ReleaseEntries(u, 0) # {}
  /\ Cardinality({p \in UnreleasedHeadings(u) : p < Min(ReleaseEntries(u, 0))}) = 1

HeadingCount(u, v) ==
  Cardinality({p \in 0..Len(u) : OccursAt(u, p, <<"H2B">> \o v \o <<"RB">>)})

\* the upper region the reassembly rule describes
ReassembledUpper(u, v, pr, d) ==
  LET h == Min(UnreleasedHeadings(u))
      r == Min(ReleaseEntries(u, h + 1))
  IN Slice(u, 0, h + 1)
       \o <<"NL", "NL">>
       \o <<"H2B">> \o v \o <<"RB", "SP", d, "NL", "NL">>
       \o modified_unreleased_content_of(strip(Slice(u, h + 1, r)), v, pr)
       \o <<"NL", "NL">>
       \o From(u, r)

WrittenUpper == split_changelog_content(file.text).upper

\* C7: after a successful run on a changelog with exactly one Unreleased heading
\* above its first release heading, the written upper region is the text up to
\* and including the Unreleased heading, an empty body, the new dated heading
\* with the merged body, and the text from the previous release heading on; one
\* Unreleased heading lies above the first release heading, the new heading
\* occurs once, and the earlier release headings follow it unchanged.
C7_Reassembly ==
  (/\ Finished
   /\ outcome = "updated"
   /\ VersionShape(env.NEW_VERSION.val)
   /\ OneUnreleasedAboveFirstRelease(upper_section))
  => /\ WrittenUpper = ReassembledUpper(upper_section, env.NEW_VERSION.val,
                                        env.PR_NUMBER.val[1], env.date)
     /\ OneUnreleasedAboveFirstRelease(WrittenUpper)
     /\ HeadingCount(WrittenUpper, env.NEW_VERSION.val) = 1
     /\ ReleaseLabels(WrittenUpper, 0)
          = <<env.NEW_VERSION.val>> \o ReleaseLabels(upper_section, 0)

(***************************************************************************)
(* Repeated runs: every job passes a well-formed NEW_VERSION and a         *)
(* PR_NUMBER, and the versions written are recorded.                       *)
(***************************************************************************)
ValidVersionInputs == { Str(V11), Str(V22), Str(V21) }
ValidPRInputs == { Str(<<"1">>), Str(<<"2">>) }

InitRepeat ==
  /\ file \in InitialFiles
  /\ file0 = file
  /\ orig = file
  /\ track = TRUE
  /\ InitRun
  /\ InitStage

StartValidRun ==
  \E v \in ValidVersionInputs, pr \in ValidPRInputs, d \in Dates : Start(v, pr, d)

NextRepeat ==
  \/ StartValidRun
  \/ ValidateInputs
  \/ Load
  \/ CheckIdempotent
  \/ Split
  \/ LocateUnreleased
  \/ LocatePrevious
  \/ ComposeAndWrite

SpecRepeat == InitRepeat /\ [][NextRepeat]_vars

\* str.split("\n")
RECURSIVE Lines(_)
Lines(s) ==
  IF \A i \in 1..Len(s) : s[i] # "NL" THEN <<s>>
  ELSE LET n == Min({i \in 1..Len(s) : s[i] = "NL"})
       IN <<SubSeq(s, 1, n - 1)>> \o Lines(SubSeq(s, n + 1, Len(s)))

Reverse(q) == [i \in 1..Len(q) |-> q[Len(q) + 1 - i]]
Range(q) == {q[i] : i \in 1..Len(q)}

IsUnreleasedLinkLine(l) == Len(l) >= 1 /\ l[1] = "UL"
UnreleasedLinkLines(b) == {i \in 1..Len(Lines(b)) : IsUnreleasedLinkLine(Lines(b)[i])}

WrittenBottom == split_changelog_content(file.text).bottom
OrigUpper == split_changelog_content(orig.text).upper
OrigBottom == split_changelog_content(orig.text).bottom

\* C10: from a changelog on which a run succeeds, runs with pairwise distinct
\* valid versions all succeed; afterwards the release headings read, top to
\* bottom, the added versions newest first and then the earlier releases; the
\* link region holds one Unreleased line followed by one line per added version,
\* newest first; and the compare link of each added version names the label of
\* the release heading directly below its own.
C10_RepeatedRuns ==
  (/\ Finished
   /\ track
   /\ Len(added) >= 1
   /\ Cardinality(UnreleasedLinkLines(OrigBottom)) = 1)
  => /\ ~wrote => \/ env.NEW_VERSION.val \in Range(added)
                  \/ HasHeadingOf(orig.text, env.NEW_VERSION.val)
     /\ split_changelog_content(file.text).ok
     /\ ReleaseLabels(WrittenUpper, 0) = Reverse(added) \o ReleaseLabels(OrigUpper, 0)
     /\ UnreleasedLinkLines(WrittenBottom) = {1}
     /\ Len(Lines(WrittenBottom)) >= Len(added) + 1
     /\ \A i \in 1..Len(added) :
          Lines(WrittenBottom)[i + 1]
            = LinkDef(ReleaseLabels(WrittenUpper, 0)[i],
                      ReleaseLabels(WrittenUpper, 0)[i + 1])

(***************************************************************************)
(* Stages run on their own: no process is running, the changelog is not    *)
(* touched; arg holds the argument and res the result.                     *)
(***************************************************************************)
InitAtRest ==
  /\ file = NoFile
  /\ file0 = NoFile
  /\ orig = NoFile
  /\ track = FALSE
  /\ InitRun

atRest == <<file, env, pc, status, outcome, locals, accessed, wrote, file0, again,
            runs, history>>

\* the lines of ls joined by "\n"
RECURSIVE Join(_)
Join(ls) ==
  IF Len(ls) = 0 THEN <<>>
  ELSE IF Len(ls) = 1 THEN ls[1]
  ELSE ls[1] \o <<"NL">> \o Join(Tail(ls))

SeqsUpTo(S, lo, hi) == UNION {[1..n -> S] : n \in lo..hi}

(***************************************************************************)
(* validate_version on every string of up to MaxVerLen characters.         *)
(***************************************************************************)
StageChars == {"1", ".", "-", "a", "NL", "X"}

VersionArgs == {None} \cup {Str(s) : s \in SeqsUpTo(StageChars, 0, MaxVerLen)}

InitValidate ==
  /\ InitAtRest
  /\ arg \in VersionArgs
  /\ res = NotRun

Validate ==
  /\ res.step = 0
  /\ res' = [step |-> 1, val |-> validate_version(arg)]
  /\ UNCHANGED <<atRest, arg>>

SpecValidate == InitValidate /\ [][Validate]_vars

\* C8: validate_version returns true exactly for the strings of the shape
\* <digits-and-dots>-<digits-and-dots>, optionally followed by
\* -<lowercase-letters>.<digits>; false for the empty string and absent input.
C8_ValidateExactly ==
  res.step = 1 => (res.val <=> (arg.set /\ VersionShape(arg.val)))

(***************************************************************************)
(* split_changelog_content and update_link_definitions on documents whose  *)
(* last lines are drawn from LinkLines.                                    *)
(***************************************************************************)
LinkLines ==
  { <<"UL", "SP", "X">>,
    <<"UL", "X">>,
    <<"LB">> \o V11 \o <<"RBC", "X">>,
    <<"X">>,
    <<"X", "SP", "UL", "SP", "X">> }

LinkDocuments ==
  { a \o Join(ls) \o z :
      a \in {<<>>, <<"X", "NL">>},
      ls \in SeqsUpTo(LinkLines, 1, MaxLinkLines),
      z \in {<<>>, <<"NL">>} }

InitLinks ==
  /\ InitAtRest
  /\ arg \in [content : LinkDocuments, new_version : {V22, V21}, prev_version : {V11}]
  /\ res = NotRun

SplitAndUpdateLinks ==
  /\ res.step = 0
  /\ LET r == split_changelog_content(arg.content)
     IN res' = [step |-> 1, ok |-> r.ok, bottom |-> r.bottom,
                out |-> IF r.ok
                        THEN update_link_definitions(r.bottom, arg.new_version,
                                                     arg.prev_version)
                        ELSE <<>>]
  /\ UNCHANGED <<atRest, arg>>

SpecLinks == InitLinks /\ [][SplitAndUpdateLinks]_vars

\* the lines of ls whose index is not in drop, in order
RECURSIVE Without(_, _, _)
Without(ls, i, drop) ==
  IF i > Len(ls) THEN <<>>
  ELSE (IF i \in drop THEN <<>> ELSE <<ls[i]>>) \o Without(ls, i + 1, drop)

\* C4: the updated link region holds exactly one [Unreleased]: line, that line
\* is the new Unreleased link, the line below it is the new compare link, and
\* every other line is kept.
C4_LinkRegion ==
  (res.step = 1 /\ res.ok /\ Cardinality(UnreleasedLinkLines(res.bottom)) = 1)
  => LET u == UnreleasedLinkLines(res.out)
         L == Lines(res.out)
     IN /\ Cardinality(u) = 1
        /\ \A i \in u :
             /\ L[i] = UnreleasedLink(arg.new_version)
             /\ i + 1 <= Len(L)
             /\ L[i + 1] = LinkDef(arg.new_version, arg.prev_version)
             /\ Without(L, 1, {i, i + 1})
                  = Without(Lines(res.bottom), 1, UnreleasedLinkLines(res.bottom))

(***************************************************************************)
(* create_new_entry and add_pr_link on unreleased bodies of up to          *)
(* MaxBodyLines lines, trimmed as find_previous_version trims them.        *)
(***************************************************************************)
BodyLines ==
  { <<"HASH", "SP", "CW">>,
    <<"HASH", "SP", "CW", "SP", "X">>,
    <<"HASH", "SP", "X">>,
    <<"X">>,
    <<"SP", "X">>,
    <<"PRL1">>,
    <<>> }

UnreleasedBodies == {strip(Join(ls)) : ls \in SeqsUpTo(BodyLines, 0, MaxBodyLines)}

InitMerge ==
  /\ InitAtRest
  /\ arg \in [body : UnreleasedBodies, new_version : {V22}, pr_number : PRs]
  /\ res = NotRun

CreateEntry ==
  /\ res.step = 0
  /\ res' = [step |-> 1,
             entry |-> create_new_entry(arg.body,
                                        new_entry_of(arg.new_version, arg.pr_number))]
  /\ UNCHANGED <<atRest, arg>>

AddLink ==
  /\ res.step = 1
  /\ res' = [step |-> 2, entry |-> res.entry,
             out |-> add_pr_link(res.entry, pr_link_of(arg.pr_number))]
  /\ UNCHANGED <<atRest, arg>>

NextMerge ==
  \/ CreateEntry
  \/ AddLink

SpecMerge == InitMerge /\ [][NextMerge]_vars

\* a heading line of any level whose text is Changes; the value is the number of
\* tokens up to the end of the word, 0 when the line is no such heading
ChangesHeadingEnd(l) ==
  IF /\ Len(l) >= 3
     /\ l[1] = "HASH"
     /\ \E k \in 3..Len(l) :
          /\ l[k] = "CW"
          /\ \A j \in 2..(k - 1) : l[j] = "SP"
          /\ \A j \in (k + 1)..Len(l) : l[j] = "SP"
  THEN Min({k \in 3..Len(l) : l[k] = "CW"})
  ELSE 0

ChangesHeadingLines(b) ==
  {i \in 1..Len(Lines(b)) : ChangesHeadingEnd(Lines(b)[i]) > 0}

\* offset in b at which line i starts
RECURSIVE LineOffset(_, _)
LineOffset(b, i) ==
  IF i = 1 THEN 0 ELSE LineOffset(b, i - 1) + Len(Lines(b)[i - 1]) + 1

Bullet == new_entry_of(arg.new_version, arg.pr_number)

\* C5: when the body has a heading whose text is Changes, the bullet follows
\* that heading after one blank line, ahead of the heading's earlier content,
\* and the text before the heading and after it is kept in order.
C5_InsertUnderChanges ==
  (res.step >= 1 /\ arg.body # <<>> /\ ChangesHeadingLines(arg.body) # {})
  => LET h == Min(ChangesHeadingLines(arg.body))
         e == LineOffset(arg.body, h) + ChangesHeadingEnd(Lines(arg.body)[h])
     IN res.entry = Slice(arg.body, 0, e)
                      \o <<"NL", "NL">> \o Bullet \o <<"NL">>
                      \o lstrip(From(arg.body, e))

\* C6: an empty body gives "### Changes", a blank line and the bullet; a body
\* without a heading whose text is Changes gives that, a blank line, and the
\* body unchanged.
C6_NewChangesSection ==
  res.step >= 1 =>
    /\ arg.body = <<>> =>
         res.entry = ChangesHeading \o <<"NL", "NL">> \o Bullet
    /\ (arg.body # <<>> /\ ChangesHeadingLines(arg.body) = {}) =>
         res.entry = ChangesHeading \o <<"NL", "NL">> \o Bullet \o <<"NL", "NL">>
                       \o arg.body

ReferenceLines(b) ==
  {i \in 1..Len(Lines(b)) : Len(Lines(b)[i]) = 1 /\ Lines(b)[i][1] \in PRLTokens}

\* C9: when a line of the merged body is a PR reference, the new reference is
\* the line directly below a reference line; otherwise it ends the body after
\* one blank line.
C9_ReferenceBlockContiguous ==
  res.step = 2 =>
    LET L == Lines(res.entry)
        link == pr_link_of(arg.pr_number)
    IN IF ReferenceLines(res.entry) # {}
       THEN \E k \in ReferenceLines(res.entry) :
              Lines(res.out) = SubSeq(L, 1, k) \o <<link>> \o SubSeq(L, k + 1, Len(L))
       ELSE res.out = res.entry \o <<"NL", "NL">> \o link

====
